---- MODULE Spec2Model ----
(***************************************************************************)
(* Model of jupytergis_lab/notebook/gis_document.py: the GISDocument with  *)
(* its four shared containers (layers, sources, options, layerTree), the   *)
(* ObjectFactoryManager, the five layer builders and the three filter      *)
(* operations.                                                             *)
(*                                                                         *)
(* Python values are modelled as strings; None is the string NONE.  A      *)
(* dict is a function from its keys.  The "filters" entry of a layer dict  *)
(* is a record whose kind says whether the key is missing ("absent"),      *)
(* holds null ("null") or holds a filters object ("obj").                  *)
(*                                                                         *)
(* Three specifications share the operators that model the code:           *)
(*   Spec        one caller building documents: the builders, and the      *)
(*               factory used directly with _add_source / _add_layer; a    *)
(*               container write is a step of its own                      *)
(*   SpecFilter  one caller running filter operations on the documents     *)
(*               of BuiltDocs, each of which is a state of Spec            *)
(*   SpecConc    two editors, each running one filter operation on such a  *)
(*               document, their reads and writes interleaved              *)
(***************************************************************************)
EXTENDS Integers, Sequences, FiniteSets, TLC

VARIABLES
    sources,    \* self._sources : id -> source dict
    layers,     \* self._layers  : id -> layer dict
    layerTree,  \* self._layerTree : sequence of ids
    options,    \* self._options
    nextId,     \* number of uuid4() values drawn so far
    pc,         \* position of the API caller inside a builder / _add_layer
    call,       \* the call in flight (its arguments and locals)
    ret,        \* outcome of the last call of the API caller
    pre,        \* the containers as they were when the last call started
    epc,        \* concurrent editors: position of each editor
    eop,        \* concurrent editors: the filter operation each editor runs
    elocal,     \* concurrent editors: the layer value each editor holds
    wlog        \* concurrent editors: order of reads and writes so far

vars == <<sources, layers, layerTree, options, nextId, pc, call, ret, pre,
          epc, eop, elocal, wlog>>

containers == <<sources, layers, layerTree, options>>

-----------------------------------------------------------------------------
(* Bounds *)

MaxIds == 4
MaxFilters == 2

-----------------------------------------------------------------------------
(* Values *)

NONE == "<None>"

\* f"{name}": str() of a value
Str(x) == IF x = NONE THEN "None" ELSE x

\* str(uuid4()): the n-th value drawn, all distinct
Uuid(n) == "id" \o ToString(n)

EmptyMap == [k \in {} |-> NONE]

Put(m, k, v) == [x \in (DOMAIN m) \cup {k} |-> IF x = k THEN v ELSE m[x]]

\* dict.get(key, None)
Get(d, k) == IF k \in DOMAIN d THEN d[k] ELSE NONE

LayerTypes == {"RasterLayer", "VectorLayer", "VectorTileLayer",
               "HillshadeLayer", "WebGlLayer", "ImageLayer"}

SourceTypes == {"VectorTileSource", "RasterSource", "GeoJSONSource",
                "ImageSource", "VideoSource"}

\* OBJECT_FACTORY._factories after the module-level registrations
Factories == LayerTypes \cup SourceTypes

\* Model.__fields__ of the parameter model registered for a type tag
Fields(tag) ==
    CASE tag = "RasterLayer"      -> {"source", "opacity"}
      [] tag = "VectorLayer"      -> {"source", "type", "color", "opacity"}
      [] tag = "VectorTileLayer"  -> {"source", "type", "color", "opacity", "sourceLayer"}
      [] tag = "HillshadeLayer"   -> {"source", "shadowColor"}
      [] tag = "WebGlLayer"       -> {"source", "opacity", "color"}
      [] tag = "ImageLayer"       -> {"source", "opacity"}
      [] tag = "RasterSource"     -> {"url", "minZoom", "maxZoom", "attribution",
                                      "htmlAttribution", "provider", "bounds",
                                      "urlParameters"}
      [] tag = "VectorTileSource" -> {"url", "minZoom", "maxZoom", "attribution",
                                      "htmlAttribution", "provider", "bounds",
                                      "urlParameters"}
      [] tag = "GeoJSONSource"    -> {"path", "data"}
      [] tag = "ImageSource"      -> {"url", "coordinates"}
      [] tag = "VideoSource"      -> {"urls", "coordinates"}
      [] OTHER                    -> {}

\* the fields a parameter model refuses to take as None
Required(tag) ==
    CASE tag \in LayerTypes               -> {"source"}
      [] tag \in {"RasterSource", "VectorTileSource"} -> {"url"}
      [] tag = "ImageSource"              -> {"url", "coordinates"}
      [] tag = "VideoSource"              -> {"urls", "coordinates"}
      [] OTHER                            -> {}

\* Model(**args): pydantic validation of the parameter model
ModelValid(tag, args) == \A f \in Required(tag) : args[f] # NONE

-----------------------------------------------------------------------------
(* Filters *)

NoFiltersKey == [kind |-> "absent", appliedFilters |-> <<>>, logicalOp |-> NONE]
NullFilters  == [kind |-> "null",   appliedFilters |-> <<>>, logicalOp |-> NONE]

FiltersObj(applied, lop) ==
    [kind |-> "obj", appliedFilters |-> applied, logicalOp |-> lop]

Predicate(feature, operator, value) ==
    [feature |-> feature, operator |-> operator, value |-> value]


-----------------------------------------------------------------------------
(* Object factory *)

\* outcome of a Python call: a returned object, a returned None, or a raise
Obj(o)      == [kind |-> "obj",   obj |-> o,    err |-> NONE]
RetNone     == [kind |-> "none",  obj |-> NONE, err |-> NONE]
Raised(e)   == [kind |-> "raise", obj |-> NONE, err |-> e]

\* JGISLayer: name: str, type: LayerType, visible: bool
JGISLayerValid(name, type, visible) ==
    name # NONE /\ type \in LayerTypes /\ visible \in BOOLEAN

\* JGISSource: name: str, type: SourceType
JGISSourceValid(name, type) ==
    name # NONE /\ type \in SourceTypes

\* JGISLayer(parent=..., name=..., visible=..., type=..., parameters=...,
\* filters=...): filters is an extra field (Config.extra = "allow")
JGISLayer(name, type, visible, parameters, filters) ==
    [_parent |-> "doc", name |-> name, type |-> type, visible |-> visible,
     parameters |-> parameters, filters |-> filters]

JGISSource(name, type, parameters) ==
    [_parent |-> "doc", name |-> name, type |-> type, parameters |-> parameters]

\* the registered tag test of create_layer / create_source
Registered(object_type) ==
    object_type # NONE /\ object_type # "" /\ object_type \in Factories

\* every key of the raw parameters is kept, declared or not
ExtractArgs_keeps_extra(object_type, params) ==
    [f \in Fields(object_type) \cup DOMAIN params |-> Get(params, f)]

\* args[field] = params.get(field, None) for field in Model.__fields__
ExtractArgs(object_type, params) ==
    [f \in Fields(object_type) |-> Get(params, f)]

\* data.get("filters", None)
GetFilters(data) ==
    IF data.filters.kind = "absent" THEN NullFilters ELSE data.filters

create_layer(data) ==
    LET object_type == data.type
        name        == data.name
        visible     == data.visible
        filters     == GetFilters(data)
    IN  IF Registered(object_type)
        THEN LET args == ExtractArgs(object_type, data.parameters)
             IN  IF ~ModelValid(object_type, args)
                    \/ ~JGISLayerValid(name, object_type, visible)
                 THEN Raised("ValidationError")
                 ELSE Obj(JGISLayer(name, object_type, visible, args, filters))
        ELSE RetNone

create_source(data) ==
    LET object_type == data.type
        name        == data.name
    IN  IF Registered(object_type)
        THEN LET args == ExtractArgs(object_type, data.parameters)
             IN  IF ~ModelValid(object_type, args)
                    \/ ~JGISSourceValid(name, object_type)
                 THEN Raised("ValidationError")
                 ELSE Obj(JGISSource(name, object_type, args))
        ELSE RetNone

\* json.loads(new_object.json()): the fields and the extra fields of the
\* pydantic object; the private attribute _parent is not serialised
ObjDict(o) == [k \in (DOMAIN o) \ {"_parent"} |-> o[k]]

-----------------------------------------------------------------------------
(* Builders: the raw source and layer dicts each builder assembles *)

Builders == {"add_raster_layer", "add_vectortile_layer", "add_geojson_layer",
             "add_image_layer", "add_video_layer"}

NoFilterArgs ==
    [logical_op |-> NONE, feature |-> NONE, operator |-> NONE, value |-> NONE]

\* arguments of a call; an argument a builder does not take stays NONE
NoArgs ==
    [name |-> NONE, url |-> NONE, coordinates |-> NONE, source_layer |-> NONE,
     avail |-> <<>>, path |-> NONE, data |-> NONE, fa |-> NoFilterArgs,
     tag |-> NONE, how |-> NONE]

Range(seq) == {seq[i] : i \in 1..Len(seq)}

\* an omitted sub-layer is the first one of the source, however many it has
ResolvedSourceLayer_first(a) ==
    IF a.source_layer = NONE /\ Len(a.avail) >= 1 THEN a.avail[1]
    ELSE a.source_layer

\* lines 166-167: the sub-layer the vector tile builder settles on
ResolvedSourceLayer(a) ==
    IF a.source_layer = NONE /\ Len(a.avail) = 1 THEN a.avail[1]
    ELSE a.source_layer

\* inline data given together with a path is accepted, the data being used
InputError_data_wins(b, a) ==
    CASE b = "add_vectortile_layer" ->
            IF ResolvedSourceLayer(a) \notin Range(a.avail)
            THEN "AmbiguousOrMissingInput" ELSE NONE
      [] b = "add_geojson_layer" ->
            IF a.path = NONE /\ a.data = NONE THEN "AmbiguousOrMissingInput"
            ELSE IF a.data # NONE THEN NONE
            ELSE IF a.path = "missing.json" THEN "FileNotFoundError"
            ELSE NONE
      [] b \in {"add_image_layer", "add_video_layer"} ->
            IF a.url = NONE \/ a.coordinates = NONE
            THEN "AmbiguousOrMissingInput" ELSE NONE
      [] OTHER -> NONE

\* the checks a builder makes before it builds anything: NONE, or the error
InputError(b, a) ==
    CASE b = "add_vectortile_layer" ->
            IF ResolvedSourceLayer(a) \notin Range(a.avail)
            THEN "AmbiguousOrMissingInput" ELSE NONE
      [] b = "add_geojson_layer" ->
            IF a.path = NONE /\ a.data = NONE THEN "AmbiguousOrMissingInput"
            ELSE IF a.path # NONE /\ a.data # NONE THEN "AmbiguousOrMissingInput"
            ELSE IF a.path = "missing.json" THEN "FileNotFoundError"
            ELSE NONE
      [] b \in {"add_image_layer", "add_video_layer"} ->
            IF a.url = NONE \/ a.coordinates = NONE
            THEN "AmbiguousOrMissingInput" ELSE NONE
      [] OTHER -> NONE

TileSourceParameters(url, min_zoom, max_zoom) ==
    [url |-> url, minZoom |-> min_zoom, maxZoom |-> max_zoom,
     attribution |-> "", htmlAttribution |-> "", provider |-> "",
     bounds |-> "[]", urlParameters |-> "{}"]

\* json.loads(fobj.read()) of the file at path: ok.json holds the GeoJSON
\* the callers also pass inline
FileJson(path) == IF path = "ok.json" THEN "D" ELSE "{}"

\* the dict named source in each builder
SourceDict(b, a) ==
    [name |-> Str(a.name) \o " Source",
     type |-> CASE b = "add_raster_layer"     -> "RasterSource"
                [] b = "add_vectortile_layer" -> "VectorTileSource"
                [] b = "add_geojson_layer"    -> "GeoJSONSource"
                [] b = "add_image_layer"      -> "ImageSource"
                [] b = "add_video_layer"      -> "VideoSource",
     parameters |->
          CASE b \in {"add_raster_layer", "add_vectortile_layer"} ->
                  TileSourceParameters(a.url, "0", "24")
            [] b = "add_geojson_layer" ->
                  [data |-> IF a.data # NONE THEN a.data
                            ELSE FileJson(a.path)]
            [] b = "add_image_layer" ->
                  [url |-> a.url, coordinates |-> a.coordinates]
            [] b = "add_video_layer" ->
                  [urls |-> a.url, coordinates |-> a.coordinates]]

\* the "filters" entry the vector builders always put in the layer dict
BuilderFilters(a) ==
    FiltersObj(<<Predicate(a.fa.feature, a.fa.operator, a.fa.value)>>,
               a.fa.logical_op)

\* the dict named layer in each builder
LayerDict(b, a, source_id) ==
    [name |-> a.name,
     visible |-> TRUE,
     type |-> CASE b = "add_vectortile_layer" -> "VectorTileLayer"
                [] b = "add_geojson_layer"    -> "VectorLayer"
                [] OTHER                      -> "RasterLayer",
     parameters |->
          CASE b = "add_vectortile_layer" ->
                  [source |-> source_id, type |-> "line", opacity |-> "1",
                   sourceLayer |-> ResolvedSourceLayer(a), color |-> "#FF0000"]
            [] b = "add_geojson_layer" ->
                  [source |-> source_id, type |-> "line", color |-> "#FF0000",
                   opacity |-> "1"]
            [] OTHER -> [source |-> source_id, opacity |-> "1"],
     filters |->
          IF b \in {"add_vectortile_layer", "add_geojson_layer"}
          THEN BuilderFilters(a) ELSE NoFiltersKey]

-----------------------------------------------------------------------------
(* Filter operations on the layer dict a caller holds *)

\* a missing id reads as a new layer dict without filters
LayerGet_default(m, layer_id) ==
    IF layer_id \in DOMAIN m THEN Obj(m[layer_id])
    ELSE Obj([name |-> NONE, type |-> NONE, visible |-> TRUE,
              parameters |-> EmptyMap, filters |-> NoFiltersKey])

\* self._layers.get(layer_id)
LayerGet(m, layer_id) ==
    IF layer_id \in DOMAIN m THEN Obj(m[layer_id]) ELSE RetNone

\* a predicate of the same feature is replaced instead of a new one appended
add_filter_replaces_same_feature(got, logical_op, feature, operator, value) ==
    IF got.kind = "none" THEN Raised("LayerNotFound")
    ELSE LET layer == got.obj IN
         IF layer.filters.kind = "absent"
         THEN Obj([layer EXCEPT !.filters =
                      FiltersObj(<<Predicate(feature, operator, value)>>,
                                 logical_op)])
         ELSE IF layer.filters.kind = "null"
         THEN Raised("TypeError")
         ELSE LET applied == layer.filters.appliedFilters
                  same == {i \in 1..Len(applied) : applied[i].feature = feature}
              IN  Obj([layer EXCEPT !.filters =
                         FiltersObj(
                           IF same = {}
                           THEN Append(applied,
                                       Predicate(feature, operator, value))
                           ELSE [i \in 1..Len(applied) |->
                                   IF i \in same
                                   THEN Predicate(feature, operator, value)
                                   ELSE applied[i]],
                           logical_op)])

\* lines 374-402: the layer dict add_filter writes back, or the error raised
add_filter(got, logical_op, feature, operator, value) ==
    IF got.kind = "none" THEN Raised("LayerNotFound")
    ELSE LET layer == got.obj IN
         IF layer.filters.kind = "absent"
         THEN Obj([layer EXCEPT !.filters =
                      FiltersObj(<<Predicate(feature, operator, value)>>,
                                 logical_op)])
         ELSE IF layer.filters.kind = "null"
         THEN Raised("TypeError")
         ELSE Obj([layer EXCEPT !.filters =
                      FiltersObj(Append(layer.filters.appliedFilters,
                                        Predicate(feature, operator, value)),
                                 logical_op)])

\* next((f for f in appliedFilters if f['feature'] == feature), None):
\* the index of the first match, 0 when there is none
FirstMatch(applied, feature) ==
    IF \E i \in 1..Len(applied) : applied[i].feature = feature
    THEN CHOOSE i \in 1..Len(applied) :
            /\ applied[i].feature = feature
            /\ \A j \in 1..(i - 1) : applied[j].feature # feature
    ELSE 0

\* every predicate of the feature gets the value
update_filter_every_match(got, logical_op, feature, operator, value) ==
    IF got.kind = "none" THEN Raised("LayerNotFound")
    ELSE LET layer == got.obj IN
         IF layer.filters.kind = "absent" THEN Raised("NoFiltersApplied")
         ELSE IF layer.filters.kind = "null" THEN Raised("TypeError")
         ELSE LET applied == layer.filters.appliedFilters
              IN  IF FirstMatch(applied, feature) = 0
                  THEN Raised("FeatureNotFound")
                  ELSE Obj([layer EXCEPT !.filters =
                              FiltersObj([j \in 1..Len(applied) |->
                                            IF applied[j].feature = feature
                                            THEN [applied[j] EXCEPT !.value = value]
                                            ELSE applied[j]],
                                         logical_op)])

\* the logical operation is written although no predicate matches
update_filter_writes_unmatched(got, logical_op, feature, operator, value) ==
    IF got.kind = "none" THEN Raised("LayerNotFound")
    ELSE LET layer == got.obj IN
         IF layer.filters.kind = "absent" THEN Raised("NoFiltersApplied")
         ELSE IF layer.filters.kind = "null" THEN Raised("TypeError")
         ELSE LET applied == layer.filters.appliedFilters
                  i       == FirstMatch(applied, feature)
              IN  Obj([layer EXCEPT !.filters =
                         FiltersObj(IF i = 0 THEN applied
                                    ELSE [applied EXCEPT ![i].value = value],
                                    logical_op)])

\* lines 414-435
update_filter(got, logical_op, feature, operator, value) ==
    IF got.kind = "none" THEN Raised("LayerNotFound")
    ELSE LET layer == got.obj IN
         IF layer.filters.kind = "absent" THEN Raised("NoFiltersApplied")
         ELSE IF layer.filters.kind = "null" THEN Raised("TypeError")
         ELSE LET applied == layer.filters.appliedFilters
                  i       == FirstMatch(applied, feature)
              IN  IF i = 0 THEN Raised("FeatureNotFound")
                  ELSE Obj([layer EXCEPT !.filters =
                              FiltersObj([applied EXCEPT ![i].value = value],
                                         logical_op)])

\* the logical operation is reset together with the predicates
clear_filters_resets_op(got) ==
    IF got.kind = "none" THEN Raised("LayerNotFound")
    ELSE LET layer == got.obj IN
         IF layer.filters.kind = "absent" THEN Raised("NoFiltersApplied")
         ELSE IF layer.filters.kind = "null" THEN Raised("TypeError")
         ELSE Obj([layer EXCEPT !.filters = FiltersObj(<<>>, NONE)])

\* lines 443-453
clear_filters(got) ==
    IF got.kind = "none" THEN Raised("LayerNotFound")
    ELSE LET layer == got.obj IN
         IF layer.filters.kind = "absent" THEN Raised("NoFiltersApplied")
         ELSE IF layer.filters.kind = "null" THEN Raised("TypeError")
         ELSE Obj([layer EXCEPT !.filters =
                      FiltersObj(<<>>, layer.filters.logicalOp)])

FilterOps == {"add_filter", "update_filter", "clear_filters"}

\* arguments of a filter call
FilterCall(op, layer_id, logical_op, feature, operator, value) ==
    [op |-> op, layer_id |-> layer_id, logical_op |-> logical_op,
     feature |-> feature, operator |-> operator, value |-> value]

NoFilterCall == FilterCall(NONE, NONE, NONE, NONE, NONE, NONE)

\* the outcome of filter call f on what the caller read
FilterOutcome(f, got) ==
    CASE f.op = "add_filter" ->
            add_filter(got, f.logical_op, f.feature, f.operator, f.value)
      [] f.op = "update_filter" ->
            update_filter(got, f.logical_op, f.feature, f.operator, f.value)
      [] f.op = "clear_filters" -> clear_filters(got)

\* the predicates already stored are kept in front of those written
WriteBack_merge(m, layer_id, layer) ==
    IF layer_id \in DOMAIN m /\ m[layer_id].filters.kind = "obj"
          /\ layer.filters.kind = "obj"
    THEN LET stored == m[layer_id].filters.appliedFilters
             mine   == layer.filters.appliedFilters
         IN  Put(m, layer_id,
                 [layer EXCEPT !.filters.appliedFilters =
                     stored \o SelectSeq(mine,
                                 LAMBDA q : \A i \in 1..Len(stored) :
                                               stored[i] # q)])
    ELSE Put(m, layer_id, layer)

\* the whole map is written from the copy taken when the document was read
WriteBack_whole_map(m, layer_id, layer) ==
    [k \in (DOMAIN m) \cup {layer_id} |->
        IF k = layer_id THEN layer
        ELSE IF k \in DOMAIN pre.layers THEN pre.layers[k] ELSE m[k]]

\* the filters written are given to every layer of the map
WriteBack_filters_to_all(m, layer_id, layer) ==
    [k \in (DOMAIN m) \cup {layer_id} |->
        IF k = layer_id THEN layer
        ELSE [m[k] EXCEPT !.filters = layer.filters]]

\* self._layers[layer_id] = layer
WriteBack(m, layer_id, layer) == Put(m, layer_id, layer)

-----------------------------------------------------------------------------
(* Inputs *)

Names == {"Layer", NONE}
LogicalOps == {"all", "any"}
Features == {"f1", "f2"}
Values == {"v1", "v2"}

SomeFilterArgs ==
    [logical_op |-> "all", feature |-> "f1", operator |-> "==", value |-> "v1"]

\* the calls of each builder: the well-formed ones, with and without a name
\* and an initial filter, and one call for each way the input can be wrong
BuilderArgs(b) ==
    CASE b = "add_raster_layer" ->
            {[NoArgs EXCEPT !.name = n, !.url = "u"] : n \in Names}
            \cup {[NoArgs EXCEPT !.name = "Layer"]}
      [] b = "add_vectortile_layer" ->
            {[NoArgs EXCEPT !.name = n, !.url = "u", !.source_layer = sa[1],
                            !.avail = sa[2], !.fa = fa] :
                n \in Names, fa \in {NoFilterArgs, SomeFilterArgs},
                sa \in {<<NONE, <<"water">> >>,
                        <<"water", <<"water", "lakes">> >>}}
            \cup {[NoArgs EXCEPT !.name = "Layer", !.url = "u",
                                 !.source_layer = sa[1], !.avail = sa[2]] :
                sa \in {<<"roads", <<"water">> >>, <<NONE, <<>> >>,
                        <<NONE, <<"water", "lakes">> >>}}
      [] b = "add_geojson_layer" ->
            {[NoArgs EXCEPT !.name = n, !.path = pd[1], !.data = pd[2],
                            !.fa = fa] :
                n \in Names, fa \in {NoFilterArgs, SomeFilterArgs},
                pd \in {<<"ok.json", NONE>>, <<NONE, "D">>}}
            \cup {[NoArgs EXCEPT !.name = "Layer", !.path = pd[1],
                                 !.data = pd[2]] :
                pd \in {<<"ok.json", "D">>, <<NONE, NONE>>,
                        <<"missing.json", NONE>>}}
      [] b \in {"add_image_layer", "add_video_layer"} ->
            {[NoArgs EXCEPT !.name = n, !.url = "u", !.coordinates = "c"] :
                n \in Names}
            \cup {[NoArgs EXCEPT !.name = "Layer", !.url = uc[1],
                                 !.coordinates = uc[2]] :
                uc \in {<<NONE, "c">>, <<"u", NONE>>}}

TypeTags == {"RasterLayer", "RasterSource", "Bogus", NONE}

\* a raw source dict with one field the schema does not declare
RawSource(tag) ==
    [type |-> tag, name |-> "Src",
     parameters |-> [url |-> "u", extra |-> "x"]]

\* a raw layer dict with one field the schema does not declare
RawLayer(tag, source_id) ==
    [type |-> tag, name |-> "Lyr", visible |-> TRUE,
     parameters |-> [source |-> source_id, extra |-> "x"],
     filters |-> NoFiltersKey]

\* a JGISLayer built by hand, without the extra field filters
HandMadeLayer(source_id) ==
    JGISLayer("Lyr", "RasterLayer", TRUE,
              [source |-> source_id, opacity |-> "1"], NoFiltersKey)

-----------------------------------------------------------------------------
(* The document and its API caller *)

Editors == {"e1", "e2"}

Snapshot ==
    [sources |-> sources, layers |-> layers, layerTree |-> layerTree,
     options |-> options]

Call(op, a, f) ==
    [op |-> op, a |-> a, f |-> f, source_id |-> NONE, new_id |-> NONE]

Outcome(op, status, err, value) ==
    [op |-> op, status |-> status, err |-> err, value |-> value]

EditorsIdle ==
    /\ epc = [e \in Editors |-> "idle"]
    /\ eop = [e \in Editors |-> NoFilterCall]
    /\ elocal = [e \in Editors |-> RetNone]
    /\ wlog = <<>>

\* GISDocument(): lines 63-66, no path and no view argument
Init ==
    /\ sources = EmptyMap
    /\ layers = EmptyMap
    /\ layerTree = <<>>
    /\ options = EmptyMap
    /\ nextId = 0
    /\ pc = "idle"
    /\ call = Call(NONE, NoArgs, NoFilterCall)
    /\ ret = Outcome(NONE, "none", NONE, NONE)
    /\ pre = Snapshot
    /\ EditorsIdle

\* the call c raises err: nothing more is written
Raise(c, err) ==
    /\ ret' = Outcome(c.op, "raised", err, NONE)
    /\ pc' = "idle"
    /\ call' = c

\* a None object is stored as an empty entry instead of failing
_add_source_stores_none(srcs, new_object, _id) ==
    IF new_object.kind = "none"
    THEN Obj(Put(srcs, _id, [name |-> NONE, type |-> NONE,
                             parameters |-> EmptyMap]))
    ELSE Obj(Put(srcs, _id, ObjDict(new_object.obj)))

\* the source is stored under another id than the one returned
_add_source_other_key(srcs, new_object, _id) ==
    IF new_object.kind = "none" THEN Raised("AttributeError")
    ELSE Obj(Put(srcs, _id \o "'", ObjDict(new_object.obj)))

\* _add_source, lines 456-459: the new sources map, or the error of
\* None.json() when the factory returned None
_add_source(srcs, new_object, _id) ==
    IF new_object.kind = "none" THEN Raised("AttributeError")
    ELSE Obj(Put(srcs, _id, ObjDict(new_object.obj)))

\* the layers map is replaced by one that holds the new layer only
_add_layer_insert_fresh_map(lyrs, new_object, _id) ==
    IF new_object.kind = "none" THEN Raised("AttributeError")
    ELSE Obj(Put(EmptyMap, _id, ObjDict(new_object.obj)))

\* _add_layer, lines 462-464: the new layers map, or the error of None.json()
_add_layer_insert(lyrs, new_object, _id) ==
    IF new_object.kind = "none" THEN Raised("AttributeError")
    ELSE Obj(Put(lyrs, _id, ObjDict(new_object.obj)))

\* a second uuid4() is drawn for the tree entry
_add_layer_append_other_id(tree, _id) == Append(tree, _id \o "'")

\* the id is put in front of the tree
_add_layer_append_front(tree, _id) == <<_id>> \o tree

\* _add_layer, line 465
_add_layer_append(tree, _id) == Append(tree, _id)

\* a builder up to and including its _add_source call
CallBuilder(b) ==
    /\ pc = "idle"
    /\ nextId + 2 <= MaxIds
    /\ \E a \in BuilderArgs(b) :
        LET c == Call(b, a, NoFilterCall) IN
        /\ pre' = Snapshot
        /\ IF InputError(b, a) # NONE
           THEN /\ Raise(c, InputError(b, a))
                /\ UNCHANGED <<containers, nextId>>
           ELSE LET r == create_source(SourceDict(b, a)) IN
                IF r.kind = "raise"
                THEN /\ Raise(c, r.err)
                     /\ UNCHANGED <<containers, nextId>>
                ELSE LET w == _add_source(sources, r, Uuid(nextId + 1)) IN
                     /\ nextId' = nextId + 1
                     /\ IF w.kind = "raise"
                        THEN /\ Raise(c, w.err)
                             /\ UNCHANGED containers
                        ELSE /\ sources' = w.obj
                             /\ call' = [c EXCEPT !.source_id = Uuid(nextId + 1)]
                             /\ pc' = "create_layer"
                             /\ ret' = Outcome(b, "running", NONE, NONE)
                             /\ UNCHANGED <<layers, layerTree, options>>
    /\ UNCHANGED <<epc, eop, elocal, wlog>>

\* the builder's layer step: create_layer and the map insertion of _add_layer
StepCreateLayer ==
    /\ pc = "create_layer"
    /\ LET r == create_layer(LayerDict(call.op, call.a, call.source_id)) IN
       IF r.kind = "raise"
       THEN /\ Raise(call, r.err)
            /\ UNCHANGED <<containers, nextId>>
       ELSE LET w == _add_layer_insert(layers, r, Uuid(nextId + 1)) IN
            /\ nextId' = nextId + 1
            /\ IF w.kind = "raise"
               THEN /\ Raise(call, w.err)
                    /\ UNCHANGED containers
               ELSE /\ layers' = w.obj
                    /\ call' = [call EXCEPT !.new_id = Uuid(nextId + 1)]
                    /\ pc' = "append"
                    /\ UNCHANGED <<sources, layerTree, options, ret>>
    /\ UNCHANGED <<pre, epc, eop, elocal, wlog>>

\* the tree append of _add_layer, and the return of the id
StepAppend ==
    /\ pc = "append"
    /\ layerTree' = _add_layer_append(layerTree, call.new_id)
    /\ ret' = Outcome(call.op, "returned", NONE, call.new_id)
    /\ pc' = "idle"
    /\ UNCHANGED <<sources, layers, options, nextId, call, pre,
                   epc, eop, elocal, wlog>>

\* self._add_source(OBJECT_FACTORY.create_source(raw, self))
CallAddSource ==
    /\ pc = "idle"
    /\ nextId + 1 <= MaxIds
    /\ \E tag \in TypeTags :
        LET c == Call("_add_source",
                      [NoArgs EXCEPT !.tag = tag, !.how = "factory"],
                      NoFilterCall)
            r == create_source(RawSource(tag))
        IN  /\ pre' = Snapshot
            /\ IF r.kind = "raise"
               THEN /\ Raise(c, r.err)
                    /\ UNCHANGED <<containers, nextId>>
               ELSE LET w == _add_source(sources, r, Uuid(nextId + 1)) IN
                    /\ nextId' = nextId + 1
                    /\ IF w.kind = "raise"
                       THEN /\ Raise(c, w.err)
                            /\ UNCHANGED containers
                       ELSE /\ sources' = w.obj
                            /\ call' = [c EXCEPT !.new_id = Uuid(nextId + 1)]
                            /\ ret' = Outcome(c.op, "returned", NONE,
                                              Uuid(nextId + 1))
                            /\ pc' = "idle"
                            /\ UNCHANGED <<layers, layerTree, options>>
    /\ UNCHANGED <<epc, eop, elocal, wlog>>

\* self._add_layer(descriptor): the descriptor comes from create_layer or is
\* a JGISLayer built by hand; it names a source of the document (or none)
CallAddLayer ==
    /\ pc = "idle"
    /\ nextId + 1 <= MaxIds
    /\ \E tag \in TypeTags, how \in {"factory", "hand"},
          sid \in (DOMAIN sources) \cup {NONE} :
        LET c == [Call("_add_layer",
                       [NoArgs EXCEPT !.tag = tag, !.how = how],
                       NoFilterCall) EXCEPT !.source_id = sid]
            r == IF how = "factory" THEN create_layer(RawLayer(tag, sid))
                 ELSE Obj(HandMadeLayer(sid))
        IN  /\ how = "hand" => (tag = "RasterLayer" /\ sid # NONE)
            /\ pre' = Snapshot
            /\ IF r.kind = "raise"
               THEN /\ Raise(c, r.err)
                    /\ UNCHANGED <<containers, nextId>>
               ELSE LET w == _add_layer_insert(layers, r, Uuid(nextId + 1)) IN
                    /\ nextId' = nextId + 1
                    /\ IF w.kind = "raise"
                       THEN /\ Raise(c, w.err)
                            /\ UNCHANGED containers
                       ELSE /\ layers' = w.obj
                            /\ call' = [c EXCEPT !.new_id = Uuid(nextId + 1)]
                            /\ ret' = Outcome(c.op, "running", NONE, NONE)
                            /\ pc' = "append"
                            /\ UNCHANGED <<sources, layerTree, options>>
    /\ UNCHANGED <<epc, eop, elocal, wlog>>

Next ==
    \/ CallBuilder("add_raster_layer")
    \/ CallBuilder("add_vectortile_layer")
    \/ CallBuilder("add_geojson_layer")
    \/ CallBuilder("add_image_layer")
    \/ CallBuilder("add_video_layer")
    \/ StepCreateLayer
    \/ StepAppend
    \/ CallAddSource
    \/ CallAddLayer

Spec == Init /\ [][Next]_vars

-----------------------------------------------------------------------------
(* Filter calls of the API caller, on documents the builders have made *)

\* a document as a record, n the number of ids drawn
EmptyDoc ==
    [sources |-> EmptyMap, layers |-> EmptyMap, layerTree |-> <<>>,
     options |-> EmptyMap, n |-> 0]

\* the document after a builder call that succeeds
AfterBuilder(d, b, a) ==
    LET source_id == Uuid(d.n + 1)
        srcs == _add_source(d.sources, create_source(SourceDict(b, a)),
                            source_id).obj
        _id  == Uuid(d.n + 2)
        lyrs == _add_layer_insert(d.layers,
                                  create_layer(LayerDict(b, a, source_id)),
                                  _id).obj
    IN  [d EXCEPT !.sources = srcs, !.layers = lyrs,
                  !.layerTree = _add_layer_append(d.layerTree, _id),
                  !.n = d.n + 2]

\* the document after _add_source(create_source(raw)) and then _add_layer of
\* a JGISLayer built by hand on that source
AfterHandMade(d) ==
    LET source_id == Uuid(d.n + 1)
        srcs == _add_source(d.sources, create_source(RawSource("RasterSource")),
                            source_id).obj
        _id  == Uuid(d.n + 2)
        lyrs == _add_layer_insert(d.layers, Obj(HandMadeLayer(source_id)),
                                  _id).obj
    IN  [d EXCEPT !.sources = srcs, !.layers = lyrs,
                  !.layerTree = _add_layer_append(d.layerTree, _id),
                  !.n = d.n + 2]

Makers == {"raster", "vectortile", "geojson", "hand"}

After(d, mk) ==
    CASE mk = "raster" ->
            AfterBuilder(d, "add_raster_layer",
                         [NoArgs EXCEPT !.name = "Layer", !.url = "u"])
      [] mk = "vectortile" ->
            AfterBuilder(d, "add_vectortile_layer",
                         [NoArgs EXCEPT !.name = "Layer", !.url = "u",
                                        !.avail = <<"water">>,
                                        !.fa = SomeFilterArgs])
      [] mk = "geojson" ->
            AfterBuilder(d, "add_geojson_layer",
                         [NoArgs EXCEPT !.name = "Layer", !.data = "D"])
      [] mk = "hand" -> AfterHandMade(d)

\* documents with one layer, and two documents with two layers; each is
\* the document of a state of Spec in which no call is in flight
BuiltDocs ==
    {After(EmptyDoc, mk) : mk \in Makers}
    \cup {After(After(EmptyDoc, "vectortile"), "hand"),
          After(After(EmptyDoc, "raster"), "geojson")}

\* number of predicates stored in the document
RECURSIVE TotalFilters(_)
TotalFilters(m) ==
    IF DOMAIN m = {} THEN 0
    ELSE LET k == CHOOSE x \in DOMAIN m : TRUE
         IN  Len(m[k].filters.appliedFilters)
               + TotalFilters([x \in (DOMAIN m) \ {k} |-> m[x]])

LayerIds == (DOMAIN layers) \cup {"nope"}

InitFilter ==
    /\ \E d \in BuiltDocs :
        /\ sources = d.sources
        /\ layers = d.layers
        /\ layerTree = d.layerTree
        /\ options = d.options
        /\ nextId = d.n
    /\ pc = "idle"
    /\ call = Call(NONE, NoArgs, NoFilterCall)
    /\ ret = Outcome(NONE, "none", NONE, NONE)
    /\ pre = Snapshot
    /\ EditorsIdle

\* one whole filter call: read, change, write back (or raise)
CallFilter(f) ==
    /\ pc = "idle"
    /\ LET r == FilterOutcome(f, LayerGet(layers, f.layer_id))
       IN  /\ pre' = Snapshot
           /\ call' = Call(f.op, NoArgs, f)
           /\ pc' = "idle"
           /\ IF r.kind = "raise"
              THEN /\ ret' = Outcome(f.op, "raised", r.err, NONE)
                   /\ UNCHANGED layers
              ELSE /\ ret' = Outcome(f.op, "returned", NONE, NONE)
                   /\ layers' = WriteBack(layers, f.layer_id, r.obj)
    /\ UNCHANGED <<sources, layerTree, options, nextId, epc, eop, elocal, wlog>>

CallAddFilter ==
    /\ TotalFilters(layers) < MaxFilters
    /\ \E id \in LayerIds, lop \in LogicalOps, ft \in Features, v \in Values :
         CallFilter(FilterCall("add_filter", id, lop, ft, "==", v))

CallUpdateFilter ==
    \E id \in LayerIds, lop \in LogicalOps, ft \in Features \cup {NONE},
       v \in Values :
         CallFilter(FilterCall("update_filter", id, lop, ft, ">", v))

CallClearFilters ==
    \E id \in LayerIds :
         CallFilter(FilterCall("clear_filters", id, NONE, NONE, NONE, NONE))

NextFilter ==
    \/ CallAddFilter
    \/ CallUpdateFilter
    \/ CallClearFilters

SpecFilter == InitFilter /\ [][NextFilter]_vars

-----------------------------------------------------------------------------
(* Two editors, each running one filter operation on the shared layers map: *)
(* the read of line 374/414/443 and the write of line 392/402/435/453 are   *)
(* separate steps, and the steps of the two editors interleave              *)

\* the value an editor passes, so that the two edits can be told apart
ValueOf(e) == IF e = "e1" THEN "v2" ELSE "v3"

EditorCalls(e) ==
    {FilterCall("add_filter", id, lop, ft, "==", ValueOf(e)) :
        id \in LayerIds, lop \in LogicalOps, ft \in Features}
    \cup {FilterCall("update_filter", id, lop, ft, ">", ValueOf(e)) :
        id \in LayerIds, lop \in LogicalOps, ft \in Features}
    \cup {FilterCall("clear_filters", id, NONE, NONE, NONE, NONE) :
        id \in LayerIds}

InitConc ==
    /\ \E d \in BuiltDocs :
        /\ sources = d.sources
        /\ layers = d.layers
        /\ layerTree = d.layerTree
        /\ options = d.options
        /\ nextId = d.n
    /\ pc = "idle"
    /\ call = Call(NONE, NoArgs, NoFilterCall)
    /\ ret = Outcome(NONE, "none", NONE, NONE)
    /\ pre = Snapshot
    /\ EditorsIdle

\* layer = self._layers.get(layer_id), the checks and the change of the copy
EdRead(e) ==
    /\ epc[e] = "idle"
    /\ \E f \in EditorCalls(e) :
        LET r == FilterOutcome(f, LayerGet(layers, f.layer_id)) IN
        /\ eop' = [eop EXCEPT ![e] = f]
        /\ elocal' = [elocal EXCEPT ![e] = r]
        /\ epc' = [epc EXCEPT ![e] = IF r.kind = "raise" THEN "raised"
                                      ELSE "holding"]
    /\ wlog' = Append(wlog, <<"read", e>>)
    /\ UNCHANGED <<containers, nextId, pc, call, ret, pre>>

\* self._layers[layer_id] = layer
EdWrite(e) ==
    /\ epc[e] = "holding"
    /\ layers' = WriteBack(layers, eop[e].layer_id, elocal[e].obj)
    /\ epc' = [epc EXCEPT ![e] = "done"]
    /\ wlog' = Append(wlog, <<"write", e>>)
    /\ UNCHANGED <<sources, layerTree, options, nextId, pc, call, ret, pre,
                   eop, elocal>>

NextConc == \E e \in Editors : EdRead(e) \/ EdWrite(e)

SpecConc == InitConc /\ [][NextConc]_vars

-----------------------------------------------------------------------------
(* Construction of a document: GISDocument(path, latitude, ..., projection) *)

\* the view arguments of __init__, lines 46-52
ViewArgNames == {"latitude", "longitude", "zoom", "extent", "bearing",
                 "pitch", "projection"}

\* the file paths a caller passes: none, a .jgis file, a file of another
\* kind, a name without extension
Paths == {NONE, "map.jgis", "map.txt", "map"}

\* file_name.split(".")[1].lower(), NONE when there is no such part
Ext(filePath) ==
    CASE filePath = "map.jgis" -> "jgis"
      [] filePath = "map.txt"  -> "txt"
      [] OTHER                 -> NONE

\* _path_to_comm, lines 469-488: the comm metadata, or the ValueError
_path_to_comm(filePath) ==
    IF filePath = NONE
    THEN Obj([path |-> NONE, format |-> NONE, contentType |-> NONE,
              createydoc |-> TRUE])
    ELSE IF Ext(filePath) = NONE THEN Raised("ValueError")
    ELSE IF Ext(filePath) = "jgis"
    THEN Obj([path |-> filePath, format |-> "text", contentType |-> "jgis",
              createydoc |-> FALSE])
    ELSE Raised("ValueError")

\* the arguments of one construction: each view argument is None or a value
CtorArgs ==
    {[path |-> p, view |-> [n \in ViewArgNames |->
                              IF n \in given THEN "the " \o n ELSE NONE]] :
        p \in Paths, given \in SUBSET ViewArgNames}

\* the view arguments are stored whether or not a path is given
__init__options_always(path, view) ==
    [n \in {k \in ViewArgNames : view[k] # NONE} |-> view[n]]

\* lines 68-82: the options map __init__ leaves
__init__options(path, view) ==
    IF path = NONE
    THEN [n \in {k \in ViewArgNames : view[k] # NONE} |-> view[n]]
    ELSE EmptyMap

\* the caller has chosen the arguments; no document exists yet
InitNew ==
    /\ sources = EmptyMap
    /\ layers = EmptyMap
    /\ layerTree = <<>>
    /\ options = EmptyMap
    /\ nextId = 0
    /\ pc = "new"
    /\ \E a \in CtorArgs : call = Call("__init__", a, NoFilterCall)
    /\ ret = Outcome(NONE, "none", NONE, NONE)
    /\ pre = Snapshot
    /\ EditorsIdle

\* __init__, lines 54-82
Construct ==
    /\ pc = "new"
    /\ LET r == _path_to_comm(call.a.path) IN
       IF r.kind = "raise"
       THEN /\ ret' = Outcome("__init__", "raised", r.err, NONE)
            /\ pc' = "failed"
            /\ UNCHANGED containers
       ELSE /\ layers' = EmptyMap
            /\ sources' = EmptyMap
            /\ options' = __init__options(call.a.path, call.a.view)
            /\ layerTree' = <<>>
            /\ ret' = Outcome("__init__", "returned", NONE, NONE)
            /\ pc' = "idle"
    /\ UNCHANGED <<nextId, call, pre, epc, eop, elocal, wlog>>

NextNew == Construct

SpecNew == InitNew /\ [][NextNew]_vars

-----------------------------------------------------------------------------
(* The object factory on its own: create_layer / create_source of a raw dict *)

\* the keys a raw parameters dict may hold for a tag: the declared fields
\* and one key no schema declares
RawKeys(tag) == Fields(tag) \cup {"extra"}

\* data["parameters"] holding the keys of present
RawParameters(present) == [k \in present |-> "raw " \o k]

\* the raw dicts handed to the factory
RawDicts ==
    {[type |-> tag, parameters |-> RawParameters(present)] :
        tag \in {"Bogus"}, present \in SUBSET RawKeys("Bogus")}
    \cup UNION {{[type |-> tag, parameters |-> RawParameters(present)] :
                    present \in SUBSET RawKeys(tag)} : tag \in Factories}

\* the data argument of create_layer / create_source made of a raw dict
LayerData(raw) ==
    [type |-> raw.type, name |-> "Lyr", visible |-> TRUE,
     parameters |-> raw.parameters, filters |-> NoFiltersKey]

SourceData(raw) ==
    [type |-> raw.type, name |-> "Src", parameters |-> raw.parameters]

InitFactory ==
    /\ sources = EmptyMap
    /\ layers = EmptyMap
    /\ layerTree = <<>>
    /\ options = EmptyMap
    /\ nextId = 0
    /\ pc = "new"
    /\ \E op \in {"create_layer", "create_source"}, raw \in RawDicts :
          call = Call(op, raw, NoFilterCall)
    /\ ret = Outcome(NONE, "none", NONE, RetNone)
    /\ pre = Snapshot
    /\ EditorsIdle

\* the call returns or raises; ret.value is what the factory gave
FactoryReturn(op, r) ==
    /\ ret' = Outcome(op, IF r.kind = "raise" THEN "raised" ELSE "returned",
                      r.err, r)
    /\ pc' = "idle"
    /\ UNCHANGED <<containers, nextId, call, pre, epc, eop, elocal, wlog>>

\* OBJECT_FACTORY.create_layer(data)
CallCreateLayer ==
    /\ pc = "new"
    /\ call.op = "create_layer"
    /\ FactoryReturn("create_layer", create_layer(LayerData(call.a)))

\* OBJECT_FACTORY.create_source(data)
CallCreateSource ==
    /\ pc = "new"
    /\ call.op = "create_source"
    /\ FactoryReturn("create_source", create_source(SourceData(call.a)))

NextFactory ==
    \/ CallCreateLayer
    \/ CallCreateSource

SpecFactory == InitFactory /\ [][NextFactory]_vars

-----------------------------------------------------------------------------
(* Claims *)

\* C1: every failing call (a builder, add_filter, update_filter,
\* clear_filters) leaves sources, layers, layerTree and options equal to
\* their values before the call; no source is left inserted when the layer
\* step of a builder fails.
C1_FailingCallLeavesDocumentUnchanged ==
    (pc = "idle" /\ ret.status = "raised") => Snapshot = pre

\* C2: in every reachable state, the state between the two writes of
\* _add_layer included, every id in layerTree is a key of layers.
C2_TreeIdsAreLayerKeys ==
    \A i \in 1..Len(layerTree) : layerTree[i] \in DOMAIN layers

\* C2 witness: between the two writes of _add_layer, the new layer is in
\* layers and not yet in a layerTree that already holds a layer
C2_Witness ==
    /\ pc = "append"
    /\ call.new_id \in DOMAIN layers
    /\ call.new_id \notin Range(layerTree)
    /\ Len(layerTree) >= 1

\* C3: _add_layer of a valid descriptor makes layerTree longer by exactly 1,
\* the returned id is its last element, the previous elements keep their
\* order, and the returned id is a key of layers.
C3_AddLayerAppends ==
    (pc = "idle" /\ ret.status = "returned"
        /\ ret.op \in Builders \cup {"_add_layer"}) =>
        /\ Len(layerTree) = Len(pre.layerTree) + 1
        /\ layerTree[Len(layerTree)] = ret.value
        /\ SubSeq(layerTree, 1, Len(layerTree) - 1) = pre.layerTree
        /\ ret.value \in DOMAIN layers

\* C3 witness: _add_layer returned on a tree that held two layers before
C3_Witness ==
    /\ pc = "idle"
    /\ ret.status = "returned"
    /\ ret.op = "_add_layer"
    /\ Len(pre.layerTree) >= 2
    /\ layerTree[Len(layerTree)] = ret.value

\* the layer a filter call names, before and after the call
Target == call.f.layer_id
OldLayer == pre.layers[Target]
NewLayer == layers[Target]

FilterCallEnded(op) ==
    pc = "idle" /\ call.op = op /\ ret.op = op
        /\ ret.status \in {"returned", "raised"}

\* a layer dict with no filter predicate: no filters key, a null filters
\* entry, or an empty appliedFilters list
HasNoPredicate(layer) ==
    layer.filters.kind # "obj" \/ layer.filters.appliedFilters = <<>>

\* C4: add_filter on a stored layer that has no filters applied (a layer of
\* add_raster_layer, add_image_layer or add_video_layer included) succeeds
\* and leaves filters = {appliedFilters: [the one predicate], logicalOp}.
C4_AddFilterOnUnfilteredLayer ==
    (FilterCallEnded("add_filter") /\ Target \in DOMAIN pre.layers
        /\ HasNoPredicate(OldLayer)) =>
        /\ ret.status = "returned"
        /\ NewLayer.filters =
              FiltersObj(<<Predicate(call.f.feature, call.f.operator,
                                     call.f.value)>>, call.f.logical_op)

\* a layer dict without filters: no filters key, or a null filters entry
HasNoFilters(layer) == layer.filters.kind # "obj"

\* C5: on a layer without filters (one made by add_raster_layer included)
\* update_filter and clear_filters fail with NoFiltersApplied and leave the
\* document unchanged.
C5_NoFiltersApplied ==
    ((FilterCallEnded("update_filter") \/ FilterCallEnded("clear_filters"))
        /\ Target \in DOMAIN pre.layers /\ HasNoFilters(OldLayer)) =>
        /\ ret.status = "raised"
        /\ ret.err = "NoFiltersApplied"
        /\ Snapshot = pre

\* a call that hands a factory result to _add_source / _add_layer with a
\* type tag that is not registered
UnknownTagCall ==
    /\ pc = "idle"
    /\ call.op \in {"_add_source", "_add_layer"}
    /\ call.a.how = "factory"
    /\ call.a.tag \notin Factories
    /\ ret.op = call.op

C9_UpdateFirstMatchOnly ==
    (FilterCallEnded("update_filter") /\ ret.status = "returned") =>
        LET old == OldLayer.filters.appliedFilters
            new == NewLayer.filters.appliedFilters
        IN  /\ OldLayer.filters.kind = "obj"
            /\ NewLayer.filters.kind = "obj"
            /\ Len(new) = Len(old)
            /\ NewLayer.filters.logicalOp = call.f.logical_op
            /\ \E i \in 1..Len(old) :
                /\ old[i].feature = call.f.feature
                /\ \A j \in 1..(i - 1) : old[j].feature # call.f.feature
                /\ new[i] = Predicate(old[i].feature, old[i].operator,
                                      call.f.value)
                /\ \A j \in (1..Len(old)) \ {i} : new[j] = old[j]

\* C9 witness: update_filter returned on a layer holding two predicates of
\* the given feature; the first one changed its value and kept an operator
\* that is not the one passed
C9_Witness ==
    /\ FilterCallEnded("update_filter")
    /\ ret.status = "returned"
    /\ Len(OldLayer.filters.appliedFilters) = 2
    /\ OldLayer.filters.appliedFilters[1].feature = call.f.feature
    /\ OldLayer.filters.appliedFilters[2].feature = call.f.feature
    /\ OldLayer.filters.appliedFilters[1].value # call.f.value
    /\ OldLayer.filters.appliedFilters[2].value # call.f.value
    /\ NewLayer.filters.appliedFilters[1].operator # call.f.operator
    /\ OldLayer.filters.logicalOp # call.f.logical_op

\* C10: update_filter with a feature that no predicate of the layer has
\* fails with FeatureNotFound and leaves the stored layer as it was, its
\* logicalOp included.
C10_FeatureNotFound ==
    (FilterCallEnded("update_filter") /\ Target \in DOMAIN pre.layers
        /\ OldLayer.filters.kind = "obj"
        /\ \A i \in 1..Len(OldLayer.filters.appliedFilters) :
              OldLayer.filters.appliedFilters[i].feature # call.f.feature) =>
        /\ ret.status = "raised"
        /\ ret.err = "FeatureNotFound"
        /\ NewLayer = OldLayer
        /\ Snapshot = pre

\* C10 witness: update_filter failed on a layer with a predicate of another
\* feature and a logicalOp that is not the one passed
C10_Witness ==
    /\ FilterCallEnded("update_filter")
    /\ ret.err = "FeatureNotFound"
    /\ Len(OldLayer.filters.appliedFilters) >= 1
    /\ OldLayer.filters.logicalOp # call.f.logical_op
    /\ OldLayer.filters.logicalOp \in LogicalOps

\* both editors have written, on the same layer, each having read the layer
\* before either wrote
BothWroteSameLayer ==
    /\ \A e \in Editors : epc[e] = "done"
    /\ eop["e1"].layer_id = eop["e2"].layer_id
    /\ Len(wlog) = 4
    /\ wlog[1][1] = "read"
    /\ wlog[2][1] = "read"

\* what filter call f alone makes of layers map m
ApplySeq(m, f) ==
    LET r == FilterOutcome(f, LayerGet(m, f.layer_id))
    IN  IF r.kind = "raise" THEN m ELSE Put(m, f.layer_id, r.obj)

\* C7: two editors running a filter operation on the same layer, both
\* reading before either writes, end with the layer equal to the whole value
\* written last, which is what the last writer alone makes of the layer read:
\* the other edit is lost and appliedFilters is never a merge of the two.
C7_LastWriteWins ==
    BothWroteSameLayer =>
        LET last  == wlog[4][2]
            id    == eop[last].layer_id
        IN  /\ layers = ApplySeq(pre.layers, eop[last])
            /\ layers[id] = elocal[last].obj

\* C7 witness: both editors added a predicate to the same layer holding one
\* predicate, reads first; the layer ends with two predicates, the added one
\* being that of the last writer
C7_Witness ==
    /\ BothWroteSameLayer
    /\ \A e \in Editors : eop[e].op = "add_filter"
    /\ eop["e1"].feature # eop["e2"].feature
    /\ Len(pre.layers[eop["e1"].layer_id].filters.appliedFilters) = 1
    /\ Len(layers[eop["e1"].layer_id].filters.appliedFilters) = 2
    /\ layers[eop["e1"].layer_id].filters.appliedFilters[2].value
          = ValueOf(wlog[4][2])

BothFinishedDifferentLayers ==
    /\ \A e \in Editors : epc[e] \in {"done", "raised"}
    /\ eop["e1"].layer_id # eop["e2"].layer_id

\* C8: two editors running filter operations on different layer ids never
\* conflict: under every interleaving of their reads and writes the final
\* layers map holds both edits and is what the two operations give when run
\* one after the other, in either order.
C8_DifferentLayersCommute ==
    BothFinishedDifferentLayers =>
        /\ layers = ApplySeq(ApplySeq(pre.layers, eop["e1"]), eop["e2"])
        /\ layers = ApplySeq(ApplySeq(pre.layers, eop["e2"]), eop["e1"])
        /\ \A e \in Editors :
              epc[e] = "done" => layers[eop[e].layer_id] = elocal[e].obj

\* C8 witness: both editors read, then both wrote, on two layers of the
\* document, and both layers changed
C8_Witness ==
    /\ BothFinishedDifferentLayers
    /\ \A e \in Editors : epc[e] = "done"
    /\ Len(wlog) = 4
    /\ wlog[1][1] = "read"
    /\ wlog[2][1] = "read"
    /\ \A e \in Editors :
          layers[eop[e].layer_id] # pre.layers[eop[e].layer_id]

\* C11: clear_filters on a layer with filters sets appliedFilters to the
\* empty list, keeps the filters entry present and logicalOp unchanged; an
\* add_filter that follows yields exactly one predicate, and clear_filters
\* applied a second time gives the same layer as applied once.
C11_ClearFilters ==
    (FilterCallEnded("clear_filters") /\ Target \in DOMAIN pre.layers
        /\ OldLayer.filters.kind = "obj") =>
        /\ ret.status = "returned"
        /\ NewLayer.filters.kind = "obj"
        /\ NewLayer.filters.appliedFilters = <<>>
        /\ NewLayer.filters.logicalOp = OldLayer.filters.logicalOp
        /\ clear_filters(LayerGet(layers, Target)) = Obj(NewLayer)
        /\ \A lop \in LogicalOps, ft \in Features, v \in Values :
              LET r == add_filter(LayerGet(layers, Target), lop, ft, "==", v)
              IN  /\ r.kind = "obj"
                  /\ r.obj.filters.appliedFilters = <<Predicate(ft, "==", v)>>

\* C11 witness: clear_filters returned on a layer that held two predicates
\* and a logicalOp
C11_Witness ==
    /\ FilterCallEnded("clear_filters")
    /\ ret.status = "returned"
    /\ Len(OldLayer.filters.appliedFilters) = 2
    /\ OldLayer.filters.logicalOp \in LogicalOps
    /\ NewLayer.filters.appliedFilters = <<>>

\* C11 witness of the sequence: add_filter returned on a layer whose
\* predicates had been cleared, leaving one predicate
C11_WitnessAddAfterClear ==
    /\ FilterCallEnded("add_filter")
    /\ ret.status = "returned"
    /\ OldLayer.filters.kind = "obj"
    /\ OldLayer.filters.appliedFilters = <<>>
    /\ Len(NewLayer.filters.appliedFilters) = 1

\* C12: add_filter, update_filter and clear_filters called with a layer id
\* that is not a key of layers fail with LayerNotFound, create no entry for
\* that id and leave the four containers unchanged.
C12_LayerNotFound ==
    (pc = "idle" /\ call.op \in FilterOps /\ ret.op = call.op
        /\ Target \notin DOMAIN pre.layers) =>
        /\ ret.status = "raised"
        /\ ret.err = "LayerNotFound"
        /\ Target \notin DOMAIN layers
        /\ Snapshot = pre

\* C12 witness: add_filter failed on an id that is no key of a document
\* holding two layers
C12_Witness ==
    /\ FilterCallEnded("add_filter")
    /\ Target \notin DOMAIN pre.layers
    /\ ret.err = "LayerNotFound"
    /\ Cardinality(DOMAIN layers) = 2

\* a builder call has ended, by a return or by a raise
BuilderCallEnded(b) ==
    pc = "idle" /\ call.op = b /\ ret.op = b
        /\ ret.status \in {"returned", "raised"}

\* C13: in every reachable state the parameters.source of every stored
\* layer is a key of sources; a successful builder call adds exactly one
\* source and then exactly one layer whose parameters.source is the id of
\* the source it just added, and returns the id of that layer.
C13_LayerSourceIsSourceKey ==
    /\ \A k \in DOMAIN layers : layers[k].parameters.source \in DOMAIN sources
    /\ (pc = "create_layer") =>
          /\ DOMAIN sources = (DOMAIN pre.sources) \cup {call.source_id}
          /\ call.source_id \notin DOMAIN pre.sources
          /\ layers = pre.layers
    /\ (\E b \in Builders : BuilderCallEnded(b) /\ ret.status = "returned") =>
          /\ DOMAIN sources = (DOMAIN pre.sources) \cup {call.source_id}
          /\ call.source_id \notin DOMAIN pre.sources
          /\ DOMAIN layers = (DOMAIN pre.layers) \cup {ret.value}
          /\ ret.value \notin DOMAIN pre.layers
          /\ layers[ret.value].parameters.source = call.source_id
          /\ \A k \in DOMAIN pre.sources : sources[k] = pre.sources[k]
          /\ \A k \in DOMAIN pre.layers : layers[k] = pre.layers[k]

\* C13 witness: a builder returned on a document that already held a layer,
\* and the new layer names the new source, not the older one
C13_Witness ==
    /\ \E b \in Builders : BuilderCallEnded(b)
    /\ ret.status = "returned"
    /\ DOMAIN pre.layers # {}
    /\ DOMAIN pre.sources # {}
    /\ layers[ret.value].parameters.source \notin DOMAIN pre.sources
    /\ layers[ret.value].parameters.source \in DOMAIN sources

\* C14: add_geojson_layer called with both path and data, or with neither,
\* fails with AmbiguousOrMissingInput before any write: sources, layers and
\* layerTree are unchanged; a call that returns was given exactly one.
C14_GeoJSONExactlyOne ==
    BuilderCallEnded("add_geojson_layer") =>
        /\ ((call.a.path # NONE) = (call.a.data # NONE)) =>
              /\ ret.status = "raised"
              /\ ret.err = "AmbiguousOrMissingInput"
              /\ Snapshot = pre
        /\ ret.status = "returned" =>
              (call.a.path # NONE) # (call.a.data # NONE)

\* C14 witness: add_geojson_layer failed with both a path and inline data
\* on a document that holds a layer
C14_Witness ==
    /\ BuilderCallEnded("add_geojson_layer")
    /\ call.a.path # NONE
    /\ call.a.data # NONE
    /\ ret.err = "AmbiguousOrMissingInput"
    /\ DOMAIN layers # {}

\* C15: add_vectortile_layer adds a source and a layer only when the
\* resolved sub-layer is among the available ones; an omitted source_layer
\* is auto-selected exactly when the source exposes exactly one sub-layer; a
\* name that is not available, or an omitted name with zero or several
\* sub-layers, makes the call fail before any source or layer is added.
C15_VectorTileSubLayer ==
    BuilderCallEnded("add_vectortile_layer") =>
        LET given == call.a.source_layer
            avail == call.a.avail
            bad   == \/ given # NONE /\ given \notin Range(avail)
                     \/ given = NONE /\ Len(avail) # 1
        IN  /\ bad => /\ ret.status = "raised"
                      /\ ret.err = "AmbiguousOrMissingInput"
                      /\ Snapshot = pre
            /\ Snapshot # pre => ~bad
            /\ ret.status = "returned" =>
                  /\ layers[ret.value].parameters.sourceLayer \in Range(avail)
                  /\ layers[ret.value].parameters.sourceLayer =
                        IF given = NONE THEN avail[1] ELSE given
                  /\ given = NONE => Len(avail) = 1
            /\ (given = NONE /\ Len(avail) = 1 /\ call.a.name # NONE) =>
                  ret.status = "returned"

\* C15 witness: the call without a source_layer failed on a source that
\* exposes two sub-layers, on a document that holds a layer
C15_Witness ==
    /\ BuilderCallEnded("add_vectortile_layer")
    /\ call.a.source_layer = NONE
    /\ Len(call.a.avail) = 2
    /\ ret.status = "raised"
    /\ DOMAIN layers # {}

\* C15 second case: the call without a source_layer returned on a source
\* that exposes one sub-layer, which the stored layer names
C15_WitnessAutoSelected ==
    /\ BuilderCallEnded("add_vectortile_layer")
    /\ call.a.source_layer = NONE
    /\ ret.status = "returned"
    /\ layers[ret.value].parameters.sourceLayer = "water"

\* one step of the document, as far as ids go
C16_Step ==
    /\ (DOMAIN sources) \subseteq DOMAIN sources'
    /\ (DOMAIN layers) \subseteq DOMAIN layers'
    /\ (DOMAIN sources') \cap (DOMAIN layers') = {}
    /\ Cardinality(((DOMAIN sources') \ DOMAIN sources)
                     \cup ((DOMAIN layers') \ DOMAIN layers)) <= 1
    /\ (ret'.status = "returned" /\ ret' # ret
          /\ ret'.op \in Builders \cup {"_add_source", "_add_layer"}) =>
          /\ ret'.value \notin (DOMAIN pre'.sources) \cup (DOMAIN pre'.layers)
          /\ ret'.value \in (DOMAIN sources') \cup (DOMAIN layers')

\* C16: ids are unique and stable: the id a call returns is no key of the
\* document the call started on and is a key afterwards, so the ids of two
\* calls differ; no id is a key of both sources and layers; an id that is a
\* key of sources or layers stays a key under every later step.
C16_IdsUniqueAndStable == [][C16_Step]_vars

\* C16 witness: _add_source returned its id on a document that already held
\* two sources and a layer, all of which are still keys
C16_Witness ==
    /\ pc = "idle"
    /\ ret.op = "_add_source"
    /\ ret.status = "returned"
    /\ Cardinality(DOMAIN pre.sources) >= 2
    /\ DOMAIN pre.layers # {}
    /\ ret.value \notin DOMAIN pre.sources
    /\ (DOMAIN pre.sources) \subseteq DOMAIN sources
    /\ (DOMAIN pre.layers) \subseteq DOMAIN layers

Constructed == pc = "idle" /\ ret.op = "__init__" /\ ret.status = "returned"

\* C17: after construction with a path, options is empty whatever view
\* arguments were passed; after construction without a path, options holds
\* exactly the keys whose argument was not None, each with the value passed;
\* in both cases layers, sources and layerTree are empty.
C17_Construction ==
    Constructed =>
        /\ call.a.path # NONE => options = EmptyMap
        /\ call.a.path = NONE =>
              /\ DOMAIN options =
                    {n \in ViewArgNames : call.a.view[n] # NONE}
              /\ \A n \in DOMAIN options : options[n] = call.a.view[n]
        /\ layers = EmptyMap
        /\ sources = EmptyMap
        /\ layerTree = <<>>

\* C17 witness: a document constructed with a path and all seven view
\* arguments has no option
C17_Witness ==
    /\ Constructed
    /\ call.a.path = "map.jgis"
    /\ \A n \in ViewArgNames : call.a.view[n] # NONE
    /\ options = EmptyMap

\* C17 second case: a document constructed without a path, with latitude
\* and zoom but no longitude, has the two options and not the third
C17_WitnessNoPath ==
    /\ Constructed
    /\ call.a.path = NONE
    /\ DOMAIN options = {"latitude", "zoom"}
    /\ options["zoom"] = "the zoom"
    /\ call.a.view["longitude"] = NONE

FactoryCallEnded ==
    pc = "idle" /\ ret.op \in {"create_layer", "create_source"}
        /\ ret.op = call.op

\* the tag names a layer type for create_layer, a source type for
\* create_source
TagFitsCall ==
    \/ call.op = "create_layer" /\ call.a.type \in LayerTypes
    \/ call.op = "create_source" /\ call.a.type \in SourceTypes

\* C18: for every registered type tag the parameters of the descriptor that
\* create_source / create_layer produce have exactly the field names the
\* tag's schema declares: a declared field has the raw value when the key is
\* in raw.parameters and null otherwise, and a key the schema does not
\* declare is not in the result; a raw dict that has the required fields
\* does produce a descriptor.
C18_ExactlyDeclaredFields ==
    FactoryCallEnded =>
        LET tag == call.a.type
            raw == call.a.parameters
        IN  /\ ret.value.kind = "obj" =>
                  /\ tag \in Factories
                  /\ DOMAIN ret.value.obj.parameters = Fields(tag)
                  /\ \A f \in Fields(tag) :
                        ret.value.obj.parameters[f] =
                            IF f \in DOMAIN raw THEN raw[f] ELSE NONE
                  /\ \A k \in (DOMAIN raw) \ Fields(tag) :
                        k \notin DOMAIN ret.value.obj.parameters
            /\ (TagFitsCall /\ Required(tag) \subseteq DOMAIN raw) =>
                  ret.value.kind = "obj"

\* C18 witness: create_layer produced a VectorTileLayer descriptor from raw
\* parameters holding source, color and an undeclared key; the three other
\* declared fields are null and the undeclared key is gone
C18_Witness ==
    /\ FactoryCallEnded
    /\ call.op = "create_layer"
    /\ call.a.type = "VectorTileLayer"
    /\ DOMAIN call.a.parameters = {"source", "color", "extra"}
    /\ ret.value.kind = "obj"
    /\ ret.value.obj.parameters["color"] = "raw color"
    /\ ret.value.obj.parameters["sourceLayer"] = NONE
    /\ "extra" \notin DOMAIN ret.value.obj.parameters

\* C19: add_filter on a layer whose filters hold n >= 0 predicates yields
\* n + 1 predicates: the previous n unchanged and in the same order, the new
\* {feature, operator, value} last, also when a predicate of the same feature
\* is already there, and logicalOp equal to the value newly supplied.
C19_AddFilterAppends ==
    (FilterCallEnded("add_filter") /\ Target \in DOMAIN pre.layers
        /\ OldLayer.filters.kind = "obj") =>
        LET old == OldLayer.filters.appliedFilters
            new == NewLayer.filters.appliedFilters
        IN  /\ ret.status = "returned"
            /\ NewLayer.filters.kind = "obj"
            /\ Len(new) = Len(old) + 1
            /\ SubSeq(new, 1, Len(old)) = old
            /\ new[Len(new)] = Predicate(call.f.feature, call.f.operator,
                                         call.f.value)
            /\ NewLayer.filters.logicalOp = call.f.logical_op

\* C19 witness: add_filter returned on a layer holding one predicate of the
\* feature now added, with another value and another logicalOp
C19_Witness ==
    /\ FilterCallEnded("add_filter")
    /\ ret.status = "returned"
    /\ Len(OldLayer.filters.appliedFilters) = 1
    /\ OldLayer.filters.appliedFilters[1].feature = call.f.feature
    /\ OldLayer.filters.appliedFilters[1].value # call.f.value
    /\ OldLayer.filters.logicalOp \in LogicalOps \ {call.f.logical_op}
    /\ Len(NewLayer.filters.appliedFilters) = 2

\* C20: the initial filter of add_vectortile_layer and add_geojson_layer is
\* optional: a layer created without the filter arguments is stored with no
\* filter predicate, and a layer created with them is stored with exactly
\* the one predicate {feature, operator, value} and the given logicalOp.
C20_InitialFilterOptional ==
    (\E b \in {"add_vectortile_layer", "add_geojson_layer"} :
        BuilderCallEnded(b) /\ ret.status = "returned") =>
        IF call.a.fa = NoFilterArgs
        THEN HasNoPredicate(layers[ret.value])
        ELSE layers[ret.value].filters =
                FiltersObj(<<Predicate(call.a.fa.feature, call.a.fa.operator,
                                       call.a.fa.value)>>,
                           call.a.fa.logical_op)

\* C21: a successful add_filter, update_filter or clear_filters changes
\* nothing but the filters of the target layer: sources, layerTree, options,
\* the key set of layers and the value of every other layer are unchanged,
\* and the target layer keeps its name, type, visible and parameters.
C21_FilterFrame ==
    (\E op \in FilterOps : FilterCallEnded(op) /\ ret.status = "returned") =>
        /\ sources = pre.sources
        /\ layerTree = pre.layerTree
        /\ options = pre.options
        /\ DOMAIN layers = DOMAIN pre.layers
        /\ Target \in DOMAIN pre.layers
        /\ \A k \in (DOMAIN layers) \ {Target} : layers[k] = pre.layers[k]
        /\ NewLayer.name = OldLayer.name
        /\ NewLayer.type = OldLayer.type
        /\ NewLayer.visible = OldLayer.visible
        /\ NewLayer.parameters = OldLayer.parameters
        /\ DOMAIN NewLayer = DOMAIN OldLayer

\* C21 witness: a filter operation returned on a document of two layers and
\* changed the filters of its target, the other layer holding other filters
C21_Witness ==
    /\ \E op \in FilterOps : FilterCallEnded(op)
    /\ ret.status = "returned"
    /\ Cardinality(DOMAIN layers) = 2
    /\ NewLayer.filters # OldLayer.filters
    /\ \E k \in (DOMAIN layers) \ {Target} :
          /\ layers[k].filters # NewLayer.filters
          /\ layers[k].filters # OldLayer.filters

=============================================================================
